---- MODULE Spec2Model ----
(***************************************************************************)
(* State-machine model of the ACME protocol engine of acme_broker:        *)
(* the nonce registry and request authenticator of AcmeCA (server.py),    *)
(* the account directory, and the Order / Authorization / Challenge       *)
(* state machine (models/order.py, models/challenge.py, database.py).     *)
(*                                                                         *)
(* A request handler is a coroutine: it runs from one await to the next   *)
(* without interruption (one asyncio event loop), and other handlers run  *)
(* at its awaits.  Each handler is modelled by the steps between its      *)
(* awaits:  Receive (the request arrives, await request.text())           *)
(*          VerifyRequest (_verify_request up to the handler's first      *)
(*                         database await)                                *)
(*          Lookup  (the SELECT, and the code up to the commit await)     *)
(*          Commit  (session.commit() and the response).                  *)
(* Writes made through a session are visible to others at its commit.     *)
(***************************************************************************)
EXTENDS Integers, Sequences, FiniteSets, TLC

\* ------------------------------------------------------------- bounds
NReq == 2        \* handler slots that may be in flight together
NKeys == 2       \* distinct client key pairs
MaxNonces == 4   \* tokens generate_nonce produces in one run
MaxOrders == 1   \* orders created in one run
MaxIdents == 1   \* identifiers requested in one order
MaxScan == 2     \* identifiers of the order the model methods are called on
MaxHeader == 3   \* pieces of the groups header of a management request
NMails == 3      \* mail addresses that ask for an external account binding
NFrame == 2      \* orders of the account whose challenges are validated

None == 0
Reqs == 1..NReq
Keys == 1..NKeys
Tokens == 1..MaxNonces

VARIABLES
    nonces,     \* AcmeCA._nonces: the outstanding tokens
    nonceCtr,   \* how many tokens generate_nonce has produced
    accounts,   \* table accounts: a sequence of rows [key, kid, status]
    orders,     \* table orders with its identifiers, authorizations, challenges
    req,        \* the handler slots: request, position, outcome
    accepts,    \* history: how often _verify_nonce has accepted each nonce
    call,       \* history: the last call of Challenge.validate / Order.validate
    eab,        \* ExternalAccountBinding: the pending bindings and its calls
    mgmt        \* AcmeManagementMixin: _mgmt_auth and the last request of its middleware

vars == <<nonces, nonceCtr, accounts, orders, req, accepts, call, eab, mgmt>>

\* ------------------------------------------------------------- util
\* util.generate_nonce: a token that was never produced before.
generate_nonce(ctr) == ctr + 1

\* util.sha256_hex_digest(serialize_pubkey(key)): a digest, one per key.
sha256_hex_digest(key) == key + NKeys

Kids == {sha256_hex_digest(k) : k \in Keys}

\* json.dumps of a contact list: its text, the brackets around the addresses.
json_dumps(contact) == <<"[">> \o contact \o <<"]">>

\* url_for(request, 'accounts', kid=kid): the account's URL on this server.
url_for(route, kid) == <<route, kid>>

\* ------------------------------------------------------------- enums
ChallengeTypes == {"http-01", "dns-01"}
ChallengeStatus == {"pending", "processing", "valid", "invalid"}
OrderStatus == {"pending", "ready", "processing", "valid", "invalid"}

\* acme.messages.Error codes: _error_middleware turns them into a problem
\* document that carries a new nonce.
TypedErrors ==
    {"badNonce", "badPublicKey", "malformed", "unauthorized",
     "accountDoesNotExist", "termsOfServiceNotAgreed", "orderNotReady"}

\* Exceptions that are no acme.messages.Error: _error_middleware does not
\* catch them, the response is the framework's 500 and carries no nonce.
UntypedErrors ==
    {"DeserializationError", "AssertionError", "JoseError",
     "AttributeError", "IntegrityError"}

Successes == {"200", "201", "404"}

\* ------------------------------------------------------------- nonce registry
_issue_nonce(ns, ctr) == ns \cup {generate_nonce(ctr)}

\* Mutant: whatever the request carries is accepted.
nonce_known_any(ns, nonce) == TRUE

nonce_known(ns, nonce) == nonce \in ns

\* Mutant: the token is checked and left in the set.
_verify_nonce_keeps(ns, nonce) == ns

_verify_nonce(ns, nonce) == ns \ {nonce}

\* ------------------------------------------------------------- database
\* The index of the first row of `rows` that satisfies Hit, None when there is
\* none:  (await session.execute(statement)).first().
First(hits) == IF hits = {} THEN None ELSE CHOOSE i \in hits : \A j \in hits : i <= j

\* Mutant: the lookup finds no account.
get_account_always_none(rows, key, kid) == None

\* A column compared with Python None is IS NULL: no row has a NULL key or kid,
\* and None is no key and no kid of the model.
get_account(rows, key, kid) ==
    First({i \in 1..Len(rows) : rows[i].key = key \/ rows[i].kid = kid})

HasAccount(accts, kid) == \E i \in 1..Len(accts) : accts[i].kid = kid

\* select(Order).join(Account).filter(kid == Account.kid, order_id == Order.order_id)
get_order(ords, accts, kid, order_id) ==
    First({o \in 1..Len(ords) :
              /\ HasAccount(accts, ords[o].account_kid)
              /\ ords[o].account_kid = kid
              /\ o = order_id})

\* select(Authorization).join(Identifier).join(Order).join(Account): the order
\* that holds the authorization, None when the kid does not own it.
get_authz(ords, accts, kid, order_id, idx) ==
    First({o \in 1..Len(ords) :
              /\ HasAccount(accts, ords[o].account_kid)
              /\ ords[o].account_kid = kid
              /\ o = order_id
              /\ idx \in 1..Len(ords[o].identifiers)})

get_challenge(ords, accts, kid, order_id, idx, type) ==
    IF type \in ChallengeTypes THEN get_authz(ords, accts, kid, order_id, idx) ELSE None

\* ------------------------------------------------------------- models
\* Challenge.create_all: one pending challenge per ChallengeType.
create_all == [t \in ChallengeTypes |-> [status |-> "pending", validated |-> FALSE]]

\* Authorization for one identifier, with its challenges.
for_identifier == [status |-> "pending", challenges |-> create_all]

\* timedelta(days=7): the days from an order's creation to its expires.
ExpiresDays == 7

\* Mutant: Order.from_obj gives the authorizations no challenges and the order
\* the status ready.
from_obj_bare(account_kid, n) ==
    [account_kid |-> account_kid,
     status |-> "ready",
     expires |-> ExpiresDays,
     expired |-> FALSE,
     csr |-> None,
     finalized |-> 0,
     identifiers |-> [i \in 1..n |-> [for_identifier EXCEPT !.challenges = <<>>]]]

\* Order.from_obj: n identifiers, each with its authorization; status pending,
\* expires 7 days after now (expired: the clock has passed it), no csr.
\* (finalized is history: the finalize requests that got through.)
from_obj(account_kid, n) ==
    [account_kid |-> account_kid,
     status |-> "pending",
     expires |-> ExpiresDays,
     expired |-> FALSE,
     csr |-> None,
     finalized |-> 0,
     identifiers |-> [i \in 1..n |-> for_identifier]]

\* Authorization.is_valid
is_valid(authorization) == authorization.status = "valid"

\* Authorization.finalize / Authorization.validate: the status after the scan
\* of the authorization's challenges.
authorization_finalize(authorization) ==
    IF authorization.status # "pending" THEN authorization.status
    ELSE IF \E t \in ChallengeTypes : authorization.challenges[t].status = "valid"
         THEN "valid"
    ELSE IF \A t \in ChallengeTypes : authorization.challenges[t].status = "invalid"
         THEN "invalid"
    ELSE "pending"

\* Mutant: one valid authorization is enough to make the order ready.
scan_any_valid(identifiers, i) ==
    IF \E j \in i..Len(identifiers) : is_valid(identifiers[j]) THEN "ready"
    ELSE IF \E j \in i..Len(identifiers) : identifiers[j].status = "invalid" THEN "invalid"
    ELSE "pending"

\* The for/else loop of Order.validate from identifier i on: it stops at the
\* first authorization that is not valid.
RECURSIVE scan_identifiers(_, _)
scan_identifiers(identifiers, i) ==
    IF i > Len(identifiers) THEN "ready"
    ELSE IF identifiers[i].status = "invalid" THEN "invalid"
    ELSE IF ~is_valid(identifiers[i]) THEN "pending"
    ELSE scan_identifiers(identifiers, i + 1)

\* Mutant: Order.validate recomputes the status of an order in any status.
order_validate_rescans(order) ==
    IF order.expired THEN "invalid" ELSE scan_identifiers(order.identifiers, 1)

\* Mutant: Order.validate does not look at the clock.
order_validate_no_expiry(order) ==
    IF order.status # "pending" THEN order.status
    ELSE scan_identifiers(order.identifiers, 1)

\* Mutant: Order.validate leaves an order without identifiers pending.
order_validate_needs_one(order) ==
    IF order.status # "pending" THEN order.status
    ELSE IF order.expired THEN "invalid"
    ELSE IF order.identifiers = <<>> THEN "pending"
    ELSE scan_identifiers(order.identifiers, 1)

\* Order.validate: the order's status after the call.
order_validate(order) ==
    IF order.status # "pending" THEN order.status
    ELSE IF order.expired THEN "invalid"
    ELSE scan_identifiers(order.identifiers, 1)

\* Mutant: Challenge.validate acts whatever the status.
challenge_is_open_always(status) == TRUE

\* Challenge.validate's guard: the statuses it acts on.
challenge_is_open(status) == status \in {"pending", "processing"}

\* Mutant: Challenge.validate sets every challenge of the authorization valid.
challenge_validate_all(authorization, type) ==
    IF ~challenge_is_open(authorization.challenges[type].status) THEN authorization
    ELSE LET set == [authorization EXCEPT
                        !.challenges = [t \in ChallengeTypes |->
                                           [status |-> "valid", validated |-> TRUE]]]
         IN [set EXCEPT !.status = authorization_finalize(set)]

\* Challenge.validate on challenge `type` of an authorization: the authorization
\* after the call.
challenge_validate(authorization, type) ==
    IF ~challenge_is_open(authorization.challenges[type].status) THEN authorization
    ELSE LET set == [authorization EXCEPT
                        !.challenges[type] = [status |-> "valid", validated |-> TRUE]]
         IN [set EXCEPT !.status = authorization_finalize(set)]

\* No call of a model method since the order tables last changed otherwise.
NoCall ==
    [fn |-> "none", o |-> None, i |-> None, t |-> "none", n |-> 0,
     was |-> "none", ret |-> "none", prev |-> "none", set |-> FALSE, parent |-> FALSE]

\* The record of a call of method fn on its target (order o, identifier i,
\* challenge t): was, the target's status before the call; ret, what the call
\* returned; set, whether it assigned the target's attributes; parent, whether
\* it called the parent's validate; n, 2 when the call before it was the same
\* method on the same target with nothing in between (prev: what that returned).
Called(fn, o, i, t, was, ret, set, parent) ==
    LET again == call.fn = fn /\ call.o = o /\ call.i = i /\ call.t = t
    IN [fn |-> fn, o |-> o, i |-> i, t |-> t,
        n |-> IF again THEN 2 ELSE 1,
        was |-> was, ret |-> ret,
        prev |-> IF again THEN call.ret ELSE "none",
        set |-> set, parent |-> parent]

\* ------------------------------------------------------------- requests
\* A handler slot.  The request: op, the envelope (ok: it parses as a JWS;
\* nonce, jwk, kid: its protected header; signer: the key that signed it) and
\* the operation's arguments (of an account update: ukid, the kid of the
\* request's URL; own, the signed kid is an account URL of this server;
\* contact, the payload's contact list).  The handler: pc, wr (the status its session will
\* write at commit).  The outcome: out, rkid (the kid of the account returned),
\* fresh (the nonce was outstanding on arrival), nres (what _verify_nonce said),
\* ld (the status of the order loaded), st (what order.finalize returned),
\* wrote (the commit changed a table).
IdleReq ==
    [pc |-> "idle", op |-> "none",
     ok |-> TRUE, nonce |-> None, jwk |-> None, kid |-> None, signer |-> None,
     tos |-> FALSE, ore |-> FALSE, n |-> 0, oid |-> None, idx |-> None, typ |-> "none",
     csr |-> "none", ukid |-> None, own |-> TRUE, contact |-> <<>>,
     wr |-> "none", out |-> "none", rkid |-> None,
     fresh |-> FALSE, nres |-> "none", ld |-> "none", st |-> "none", wrote |-> FALSE]

NoArgs ==
    [tos |-> FALSE, ore |-> FALSE, n |-> 0, oid |-> None, idx |-> None, typ |-> "none",
     csr |-> "none", ukid |-> None, own |-> TRUE, contact |-> <<>>]

\* The csr of a finalize request's payload: its names are the order's
\* identifiers, or they are not.
CSRs == {"match", "mismatch"}

\* The arguments each operation reads.
Args(op) ==
    CASE op = "new-account" ->
           {[NoArgs EXCEPT !.tos = t, !.ore = e] : t \in BOOLEAN, e \in BOOLEAN}
      [] op = "new-order" -> {[NoArgs EXCEPT !.n = n] : n \in 0..MaxIdents}
      [] op = "order" -> {[NoArgs EXCEPT !.oid = o] : o \in 1..MaxOrders}
      [] op = "finalize-order" ->
           {[NoArgs EXCEPT !.oid = o, !.csr = c] : o \in 1..MaxOrders, c \in CSRs}
      [] op = "authz" ->
           {[NoArgs EXCEPT !.oid = o, !.idx = i] : o \in 1..MaxOrders, i \in 1..MaxIdents}
      [] op = "challenge" ->
           {[NoArgs EXCEPT !.oid = o, !.idx = i, !.typ = t] :
               o \in 1..MaxOrders, i \in 1..MaxIdents, t \in ChallengeTypes}
      [] OTHER -> {NoArgs}

\* The routes of AcmeCA.ca_app that take a signed envelope.
Ops == {"new-account", "revoke-cert", "new-order", "order", "finalize-order",
        "authz", "challenge"}

\* _verify_request(request, key_auth=True) is what _new_account and _revoke_cert call.
key_auth(op) == op \in {"new-account", "revoke-cert"}

\* The nonces a client may present: none, any token produced so far
\* (outstanding or consumed) and one that was never produced.
NonceChoices == {n \in {None} \cup Tokens : n <= nonceCtr + 1}

\* An envelope that does not parse as a JWS.
Unparsable == [ok |-> FALSE, nonce |-> None, jwk |-> None, kid |-> None, signer |-> None]

\* What a parsing envelope's protected header holds and who signed it: a jwk
\* (signed with its key or with another), a kid (signed by the account's key
\* or by another), both, or neither.
Shapes ==
    {[jwk |-> k, kid |-> None, signer |-> s] : k \in Keys, s \in Keys}
    \cup {[jwk |-> None, kid |-> sha256_hex_digest(k), signer |-> s] : k \in Keys, s \in Keys}
    \cup {[jwk |-> 1, kid |-> sha256_hex_digest(1), signer |-> 1],
          [jwk |-> None, kid |-> None, signer |-> 1]}

Envelope(n, s) ==
    [ok |-> TRUE, nonce |-> n, jwk |-> s.jwk, kid |-> s.kid, signer |-> s.signer]

\* Every envelope: the unparsable one, every shape with an outstanding nonce,
\* and (the nonce is checked before the header is looked at) one shape with
\* each nonce that is not outstanding.
AllEnvelopes ==
    {Unparsable}
    \cup {Envelope(n, s) : n \in nonces, s \in Shapes}
    \cup {Envelope(n, [jwk |-> 1, kid |-> None, signer |-> 1]) : n \in NonceChoices \ nonces}

\* The envelopes of a client that follows the protocol for `op`: its own key
\* embedded (key_auth) or its own kid, signed with its key, with a nonce the
\* server has issued (outstanding or used).
HonestEnvelopes(op) ==
    {[ok |-> TRUE, nonce |-> n,
      jwk |-> IF key_auth(op) THEN s ELSE None,
      kid |-> IF key_auth(op) THEN None ELSE sha256_hex_digest(s),
      signer |-> s] : n \in 1..nonceCtr, s \in Keys}

\* The envelopes of the client that owns order o, for an operation on it: the
\* account's kid, signed with the account's key, with an outstanding nonce.
OwnerEnvelopes(o) ==
    {[ok |-> TRUE, nonce |-> n, jwk |-> None, kid |-> orders[o].account_kid,
      signer |-> accounts[get_account(accounts, None, orders[o].account_kid)].key] :
        n \in nonces}

\* The envelopes of the client of account a: the account's kid, signed with
\* the account's key, with an outstanding nonce.
AccountEnvelopes(a) ==
    {[ok |-> TRUE, nonce |-> n, jwk |-> None, kid |-> accounts[a].kid,
      signer |-> accounts[a].key] : n \in nonces}

\* The envelopes of new-account requests: any key embedded, signed with it or
\* with another key, with an outstanding nonce; and one without a nonce.
KeyEnvelopes ==
    {Envelope(n, [jwk |-> k, kid |-> None, signer |-> s]) :
        n \in nonces, k \in Keys, s \in Keys}
    \cup {Envelope(None, [jwk |-> 1, kid |-> None, signer |-> 1])}

\* The arguments of a client that registers: terms agreed, not onlyReturnExisting.
HonestArgs(op) == {a \in Args(op) : op = "new-account" => a.tos /\ ~a.ore}

InFlight(r) == req[r].pc \in {"recv", "lookup", "commit"}

NumInFlight == Cardinality({r \in Reqs : InFlight(r)})

NumNewOrders == Cardinality({r \in Reqs : InFlight(r) /\ req[r].op = "new-order"})

\* The handler of slot r ends with `out`; q is its record, ns the outstanding
\* nonces before the response.  A response built by the handler or by
\* _error_middleware carries self._issue_nonce(); an exception the middleware
\* does not catch gets none.
Finish(r, q, out, ns) ==
    /\ req' = [req EXCEPT ![r] = [q EXCEPT !.pc = "done", !.out = out]]
    /\ IF out \in UntypedErrors
       THEN nonces' = ns /\ nonceCtr' = nonceCtr
       ELSE nonces' = _issue_nonce(ns, nonceCtr) /\ nonceCtr' = nonceCtr + 1

\* A request arrives (await request.text()); its handler takes the first slot
\* that is free.
Receive(r, op, e, a) ==
    /\ ~InFlight(r)
    /\ \A q \in Reqs : q < r => InFlight(q)
    /\ nonceCtr + NumInFlight < MaxNonces
    /\ op = "new-order" => Len(orders) + NumNewOrders < MaxOrders
    /\ req' = [req EXCEPT ![r] =
                  [IdleReq EXCEPT !.pc = "recv", !.op = op,
                      !.ok = e.ok, !.nonce = e.nonce, !.jwk = e.jwk, !.kid = e.kid,
                      !.signer = e.signer,
                      !.tos = a.tos, !.ore = a.ore, !.n = a.n, !.oid = a.oid,
                      !.idx = a.idx, !.typ = a.typ, !.csr = a.csr,
                      !.ukid = a.ukid, !.own = a.own, !.contact = a.contact,
                      !.fresh = e.ok /\ e.nonce \in nonces]]
    /\ UNCHANGED <<nonces, nonceCtr, accounts, orders, accepts, call, eab, mgmt>>

\* ------------------------------------------------------------- authenticator
\* _verify_request: "ok", or the exception it raises.
_verify_request(q, ns) ==
    IF ~q.ok THEN "DeserializationError"
    ELSE IF ~nonce_known(ns, q.nonce) THEN "badNonce"
    ELSE IF (q.jwk # None) = (q.kid # None) THEN "AssertionError"
    ELSE IF key_auth(q.op)
         THEN IF q.jwk = None THEN "JoseError"
              ELSE IF q.signer # q.jwk THEN "badPublicKey"
              ELSE "ok"
    ELSE IF q.kid # None THEN "ok"
    ELSE "malformed"

\* Mutant: the nonce is consumed once the other checks have passed.
consumes_nonce_after_checks(q, ns) == _verify_request(q, ns) = "ok"

\* Whether _verify_request removes the request's nonce: self._verify_nonce is
\* called once the envelope has parsed, before any other check.
consumes_nonce(q, ns) == q.ok /\ nonce_known(ns, q.nonce)

\* _verify_request of slot r, and the handler up to its first database await.
VerifyRequest(r) ==
    /\ req[r].pc = "recv"
    /\ LET q == req[r]
           res == _verify_request(q, nonces)
           accepted == consumes_nonce(q, nonces)
           ns == IF accepted THEN _verify_nonce(nonces, q.nonce) ELSE nonces
           q1 == [q EXCEPT !.nres = IF ~q.ok THEN "none"
                                    ELSE IF accepted THEN "accepted" ELSE "rejected"]
       IN /\ accepts' = IF accepted THEN [accepts EXCEPT ![q.nonce] = @ + 1] ELSE accepts
          /\ IF res # "ok" THEN Finish(r, q1, res, ns)
             ELSE IF q.op = "revoke-cert" THEN Finish(r, q1, "404", ns)
             ELSE /\ req' = [req EXCEPT ![r] = [q1 EXCEPT !.pc = "lookup"]]
                  /\ nonces' = ns
                  /\ nonceCtr' = nonceCtr
    /\ UNCHANGED <<accounts, orders, call, eab, mgmt>>

\* _new_nonce and _get_directory: a response with a new nonce.
_new_nonce ==
    /\ nonceCtr + NumInFlight < MaxNonces
    /\ nonces' = _issue_nonce(nonces, nonceCtr)
    /\ nonceCtr' = nonceCtr + 1
    /\ UNCHANGED <<accounts, orders, req, accepts, call, eab, mgmt>>

\* ------------------------------------------------------------- account directory
\* accounts.kid is the column orders.account_kid references, and the kid is a
\* digest of the key: the table holds one row per kid and per key, and an
\* INSERT of a second one fails.
unique_violation(accts, row) ==
    \E i \in 1..Len(accts) : accts[i].kid = row.kid \/ accts[i].key = row.key

\* Mutant: an account is created whether or not the terms were agreed to.
register_ignores_terms(found, status, ore, tos) ==
    IF found
    THEN IF status # "valid" THEN "unauthorized" ELSE "200"
    ELSE IF ore THEN "accountDoesNotExist" ELSE "create"

\* The branches of _new_account after get_account: found, the account's status,
\* reg.only_return_existing, reg.terms_of_service_agreed.
register(found, status, ore, tos) ==
    IF found
    THEN IF status # "valid" THEN "unauthorized" ELSE "200"
    ELSE IF ore THEN "accountDoesNotExist"
    ELSE IF ~tos THEN "termsOfServiceNotAgreed"
    ELSE "create"

\* _new_account from get_account to the commit await.
_new_account_get(r) ==
    /\ req[r].pc = "lookup" /\ req[r].op = "new-account"
    /\ LET q == req[r]
           account == get_account(accounts, q.jwk, None)
           branch == register(account # None,
                              IF account # None THEN accounts[account].status ELSE "none",
                              q.ore, q.tos)
       IN IF branch = "create"
          THEN /\ req' = [req EXCEPT ![r].pc = "commit"]
               /\ UNCHANGED <<nonces, nonceCtr>>
          ELSE Finish(r, [q EXCEPT !.rkid = IF branch = "200" THEN accounts[account].kid
                                             ELSE None],
                      branch, nonces)
    /\ UNCHANGED <<accounts, orders, accepts, call, eab, mgmt>>

\* _new_account: session.commit() of the added account, and the 201 response.
_new_account_commit(r) ==
    /\ req[r].pc = "commit" /\ req[r].op = "new-account"
    /\ LET q == req[r]
           new_account == [key |-> q.jwk, kid |-> sha256_hex_digest(q.jwk),
                           status |-> "valid", contact |-> json_dumps(q.contact)]
       IN IF unique_violation(accounts, new_account)
          THEN /\ Finish(r, q, "IntegrityError", nonces)
               /\ accounts' = accounts
          ELSE /\ Finish(r, [q EXCEPT !.rkid = new_account.kid, !.wrote = TRUE],
                         "201", nonces)
               /\ accounts' = Append(accounts, new_account)
    /\ UNCHANGED <<orders, accepts, call, eab, mgmt>>

\* The contact lists of an update's payload, and the kids of a request's URL:
\* those of the keys and one that is the digest of no registered key.
Contacts == {<<>>, <<"mailto:b">>}

UrlKids == Kids \cup {sha256_hex_digest(NKeys + 1)}

\* Mutant: any contact of the payload is taken, an empty one too.
contact_given_always(contact) == TRUE

\* `if contact := upd.contact`: an empty contact list is false.
contact_given(contact) == contact # <<>>

\* _accounts from the assertion to the commit await: kid is the URL's, and its
\* URL must be the kid the envelope signed.
_accounts_get(r) ==
    /\ req[r].pc = "lookup" /\ req[r].op = "accounts"
    /\ LET q == req[r]
           kid == q.ukid
           signed == <<IF q.own THEN "accounts" ELSE "elsewhere", q.kid>>
           account == get_account(accounts, None, kid)
       IN IF url_for("accounts", kid) # signed
          THEN Finish(r, q, "AssertionError", nonces)
          ELSE IF account = None
          THEN Finish(r, q, "accountDoesNotExist", nonces)
          ELSE /\ req' = [req EXCEPT ![r] = [q EXCEPT !.pc = "commit", !.rkid = kid]]
               /\ UNCHANGED <<nonces, nonceCtr>>
    /\ UNCHANGED <<accounts, orders, accepts, call, eab, mgmt>>

\* _accounts: session.commit() of the account's contact, and the 200 response.
_accounts_commit(r) ==
    /\ req[r].pc = "commit" /\ req[r].op = "accounts"
    /\ LET q == req[r]
           account == get_account(accounts, None, q.rkid)
           written == IF contact_given(q.contact)
                      THEN [accounts EXCEPT ![account].contact = json_dumps(q.contact)]
                      ELSE accounts
       IN /\ accounts' = written
          /\ Finish(r, [q EXCEPT !.wrote = (written # accounts)], "200", nonces)
    /\ UNCHANGED <<orders, accepts, call, eab, mgmt>>

\* Account a is deactivated: its status is valid no more.
Deactivate(a) ==
    /\ a \in 1..Len(accounts)
    /\ accounts[a].status = "valid"
    /\ accounts' = [accounts EXCEPT ![a].status = "deactivated"]
    /\ UNCHANGED <<nonces, nonceCtr, orders, req, accepts, call, eab, mgmt>>

\* ------------------------------------------------------------- orders
\* _new_order from get_account to the commit await: the flush of an order
\* whose account is None breaks orders.account_kid's NOT NULL.
_new_order_get(r) ==
    /\ req[r].pc = "lookup" /\ req[r].op = "new-order"
    /\ LET q == req[r]
           account == get_account(accounts, None, q.kid)
       IN IF account = None
          THEN Finish(r, q, "IntegrityError", nonces)
          ELSE /\ req' = [req EXCEPT ![r].pc = "commit"]
               /\ UNCHANGED <<nonces, nonceCtr>>
    /\ UNCHANGED <<accounts, orders, accepts, call, eab, mgmt>>

_new_order_commit(r) ==
    /\ req[r].pc = "commit" /\ req[r].op = "new-order"
    /\ orders' = Append(orders, from_obj(req[r].kid, req[r].n))
    /\ Finish(r, [req[r] EXCEPT !.wrote = TRUE], "201", nonces)
    /\ call' = NoCall
    /\ UNCHANGED <<accounts, accepts, eab, mgmt>>

\* Mutant: a session does not notice the attribute it changed.
Changed_nothing(loaded, new) == "none"

\* Mutant: a session writes back at commit the value it loaded.
Changed_loaded(loaded, new) == loaded

\* What a session writes at commit: the new value of an attribute it changed.
Changed(loaded, new) == IF new = loaded THEN "none" ELSE new

\* Mutant: _finalize_order lets an order in any status through.
order_not_ready_never(op, status) == FALSE

\* _finalize_order raises orderNotReady unless order.finalize returned READY.
order_not_ready(op, status) == op = "finalize-order" /\ status # "ready"

\* Mutant: leaving the session's block on an exception writes what it changed.
session_close_flushes(stored, pending) == pending

\* `async with self._session() as session` left by an exception before
\* session.commit(): the session is closed and what it changed is discarded.
session_close(stored, pending) == stored

\* _order and _finalize_order from get_order to the commit await.
\* order.finalize(session) recomputes the order's status (Order.validate).
_order_get(r) ==
    /\ req[r].pc = "lookup" /\ req[r].op \in {"order", "finalize-order"}
    /\ LET q == req[r]
           order == get_order(orders, accounts, q.kid, q.oid)
       IN IF order = None
          THEN Finish(r, q, "AttributeError", nonces) /\ UNCHANGED orders
          ELSE LET status == order_validate(orders[order])
                   q1 == [q EXCEPT !.ld = orders[order].status, !.st = status]
               IN IF order_not_ready(q.op, status)
                  THEN /\ Finish(r, q1, "orderNotReady", nonces)
                       /\ orders' = session_close(orders,
                                        [orders EXCEPT ![order].status = status])
                  ELSE /\ req' = [req EXCEPT ![r] =
                                     [q1 EXCEPT !.pc = "commit",
                                         !.wr = Changed(orders[order].status, status)]]
                       /\ UNCHANGED <<nonces, nonceCtr, orders>>
    /\ UNCHANGED <<accounts, accepts, call, eab, mgmt>>

\* session.commit() of _order (response 200) and of _finalize_order (which
\* then decodes the payload's csr and answers AcmeResponse(status=404)).
_order_commit(r) ==
    /\ req[r].pc = "commit" /\ req[r].op \in {"order", "finalize-order"}
    /\ LET q == req[r]
           written == IF q.wr = "none" THEN orders
                      ELSE [orders EXCEPT ![q.oid].status = q.wr]
       IN /\ orders' = IF q.op = "finalize-order"
                       THEN [written EXCEPT ![q.oid].finalized = @ + 1]
                       ELSE written
          /\ Finish(r, [q EXCEPT !.wrote = (q.wr # "none")],
                    IF q.op = "order" THEN "200" ELSE "404", nonces)
    /\ call' = NoCall
    /\ UNCHANGED <<accounts, accepts, eab, mgmt>>

\* _authz from get_authz to the commit await.
_authz_get(r) ==
    /\ req[r].pc = "lookup" /\ req[r].op = "authz"
    /\ LET q == req[r]
           order == get_authz(orders, accounts, q.kid, q.oid, q.idx)
       IN IF order = None
          THEN Finish(r, q, "AttributeError", nonces)
          ELSE LET authorization == orders[order].identifiers[q.idx]
               IN /\ req' = [req EXCEPT ![r] =
                                [q EXCEPT !.pc = "commit",
                                    !.wr = Changed(authorization.status,
                                                   authorization_finalize(authorization))]]
                  /\ UNCHANGED <<nonces, nonceCtr>>
    /\ UNCHANGED <<accounts, orders, accepts, call, eab, mgmt>>

_authz_commit(r) ==
    /\ req[r].pc = "commit" /\ req[r].op = "authz"
    /\ LET q == req[r]
       IN /\ orders' = IF q.wr = "none" THEN orders
                       ELSE [orders EXCEPT ![q.oid].identifiers[q.idx].status = q.wr]
          /\ Finish(r, [q EXCEPT !.wrote = (q.wr # "none")], "200", nonces)
    /\ call' = NoCall
    /\ UNCHANGED <<accounts, accepts, eab, mgmt>>

\* The status _challenge assigns to the challenge it loaded.
_challenge_status(loaded) == "valid"

\* _challenge from get_challenge, over asyncio.sleep(1), to the commit await.
_challenge_get(r) ==
    /\ req[r].pc = "lookup" /\ req[r].op = "challenge"
    /\ LET q == req[r]
           order == get_challenge(orders, accounts, q.kid, q.oid, q.idx, q.typ)
       IN IF order = None
          THEN Finish(r, q, "AttributeError", nonces)
          ELSE LET loaded == orders[order].identifiers[q.idx].challenges[q.typ].status
               IN /\ req' = [req EXCEPT ![r] =
                                [q EXCEPT !.pc = "commit",
                                    !.wr = Changed(loaded, _challenge_status(loaded))]]
                  /\ UNCHANGED <<nonces, nonceCtr>>
    /\ UNCHANGED <<accounts, orders, accepts, call, eab, mgmt>>

_challenge_commit(r) ==
    /\ req[r].pc = "commit" /\ req[r].op = "challenge"
    /\ LET q == req[r]
       IN /\ orders' = IF q.wr = "none" THEN orders
                       ELSE [orders EXCEPT
                                ![q.oid].identifiers[q.idx].challenges[q.typ].status = q.wr]
          /\ Finish(r, [q EXCEPT !.wrote = (q.wr # "none")], "200", nonces)
    /\ call' = NoCall
    /\ UNCHANGED <<accounts, accepts, eab, mgmt>>

\* ------------------------------------------------------------- model methods
\* Challenge.validate(session) on challenge t of identifier i of order o.
Challenge_validate(o, i, t) ==
    /\ o \in 1..Len(orders) /\ i \in 1..Len(orders[o].identifiers)
    /\ LET authorization == orders[o].identifiers[i]
           was == authorization.challenges[t].status
           new == challenge_validate(authorization, t)
       IN /\ orders' = [orders EXCEPT ![o].identifiers[i] = new]
          /\ call' = Called("Challenge.validate", o, i, t, was,
                            new.challenges[t].status,
                            challenge_is_open(was), challenge_is_open(was))
    /\ UNCHANGED <<nonces, nonceCtr, accounts, req, accepts, eab, mgmt>>

\* Order.validate() on order o.
Order_validate(o) ==
    /\ o \in 1..Len(orders)
    /\ LET was == orders[o].status
           new == order_validate(orders[o])
       IN /\ orders' = [orders EXCEPT ![o].status = new]
          /\ call' = Called("Order.validate", o, None, "none", was, new,
                            new # was, FALSE)
    /\ UNCHANGED <<nonces, nonceCtr, accounts, req, accepts, eab, mgmt>>

\* The challenge verifier reports a failed attempt: the challenge becomes
\* invalid and its authorization is finalized.
Verifier_invalid(o, i, t) ==
    /\ o \in 1..Len(orders) /\ i \in 1..Len(orders[o].identifiers)
    /\ challenge_is_open(orders[o].identifiers[i].challenges[t].status)
    /\ LET set == [orders[o].identifiers[i] EXCEPT !.challenges[t].status = "invalid"]
       IN orders' = [orders EXCEPT
                        ![o].identifiers[i] =
                            [set EXCEPT !.status = authorization_finalize(set)]]
    /\ call' = NoCall
    /\ UNCHANGED <<nonces, nonceCtr, accounts, req, accepts, eab, mgmt>>

\* The clock passes the order's expires.
Expire(o) ==
    /\ o \in 1..Len(orders)
    /\ ~orders[o].expired
    /\ orders' = [orders EXCEPT ![o].expired = TRUE]
    /\ call' = NoCall
    /\ UNCHANGED <<nonces, nonceCtr, accounts, req, accepts, eab, mgmt>>

\* ------------------------------------------------------------- external account binding
\* The mail addresses of the client certificates: the kid of a binding.
Mails == 1..NMails

\* The kids and hmac keys a caller of verify may pass: those of the bindings
\* and, for each, one that belongs to no binding.
EabKids == 0..(NMails + 1)

EabHmacs == 0..(NMails + 1)

\* No binding is pending and verify has not been called.
NoBindings ==
    [pending |-> [k \in Mails |-> None],
     ctr |-> 0,
     created |-> {},
     verified |-> [kid |-> None, hmac |-> None, ret |-> FALSE, called |-> FALSE]]

\* Mutant: every binding gets the same hmac key.
token_constant(ctr) == 1

\* The hmac key of a new binding: a secret no binding has got before.
token(ctr) == ctr + 1

\* ExternalAccountBinding.verify(kid, hmac): the binding pending for kid has
\* this hmac key.
verify(pending, kid, hmac) ==
    kid \in Mails /\ pending[kid] # None /\ pending[kid] = hmac

\* ExternalAccountBinding.create(request, public_key) for the mail address of
\* the request's client certificate: the kid is the mail address, the hmac
\* key that of its pending binding or a new one.
_eab_create(mail) ==
    /\ LET known == eab.pending[mail] # None
           hmac == IF known THEN eab.pending[mail] ELSE token(eab.ctr)
       IN eab' = [eab EXCEPT !.pending[mail] = hmac,
                             !.ctr = IF known THEN @ ELSE @ + 1,
                             !.created = @ \cup {[kid |-> mail, hmac |-> hmac]}]
    /\ UNCHANGED <<nonces, nonceCtr, accounts, orders, req, accepts, call, mgmt>>

\* A call of ExternalAccountBinding.verify and what it returned.
_eab_verify(kid, hmac) ==
    /\ eab' = [eab EXCEPT !.verified =
                   [kid |-> kid, hmac |-> hmac, called |-> TRUE,
                    ret |-> verify(eab.pending, kid, hmac)]]
    /\ UNCHANGED <<nonces, nonceCtr, accounts, orders, req, accepts, call, mgmt>>

\* ------------------------------------------------------------- management
\* MGMT_GROUP = "it-admins", a string of one piece.
MGMT_GROUP == <<"it-admins">>

\* The prefix of the management paths, "/mgmt", as its characters.
MGMT_PATH == <<"/", "m", "g", "m", "t">>

\* The pieces a groups header is made of: group names, the comma, the blank.
Pieces == {"it-admins", "users", ",", " "}

\* The values of the x-forwarded-groups header: strings of up to MaxHeader pieces.
Headers == UNION {[1..n -> Pieces] : n \in 0..MaxHeader}

\* request.headers.get(GROUPS_HEADER) of a request without the header.
NoHeader == <<"None">>

\* The paths of the requests: /mgmt, paths below it, paths that only look
\* like it, and paths of the ACME routes.
Paths ==
    {<<"/", "m", "g", "m", "t">>,
     <<"/", "m", "g", "m", "t", "/", "c">>,
     <<"/", "m", "g", "m", "t", "x">>,
     <<"/", "m", "g", "m">>,
     <<"m", "g", "m", "t">>,
     <<"/", "x", "/", "m", "g", "m", "t">>,
     <<"/">>}

\* str.startswith
startswith(s, prefix) ==
    Len(s) >= Len(prefix) /\ SubSeq(s, 1, Len(prefix)) = prefix

\* The place of the first comma of s, 0 if it has none.
find_comma(s) ==
    IF \E i \in 1..Len(s) : s[i] = ","
    THEN CHOOSE i \in 1..Len(s) : s[i] = "," /\ \A j \in 1..(i - 1) : s[j] # ","
    ELSE 0

\* str.split(","): the strings between the commas, the empty ones too.
RECURSIVE split(_)
split(s) ==
    LET i == find_comma(s)
    IN IF i = 0 THEN <<s>>
       ELSE <<SubSeq(s, 1, i - 1)>> \o split(SubSeq(s, i + 1, Len(s)))

\* Mutant: the group is looked for anywhere in the header, as a substring.
has_group_anywhere(groups) ==
    \E i \in 1..Len(groups) :
        i + Len(MGMT_GROUP) - 1 <= Len(groups)
        /\ SubSeq(groups, i, i + Len(MGMT_GROUP) - 1) = MGMT_GROUP

\* self.MGMT_GROUP in groups.split(",")
has_group(groups) ==
    \E i \in 1..Len(split(groups)) : split(groups)[i] = MGMT_GROUP

\* No request has passed the middleware.
NoRequest ==
    [_mgmt_auth |-> FALSE, called |-> FALSE, path |-> <<>>, groups |-> NoHeader,
     status |-> "none", handled |-> FALSE, passed |-> <<>>]

\* mgmt_auth_middleware(request, handler): the 403 response, or the handler
\* called with the request and its response.
mgmt_auth_middleware(path, groups) ==
    /\ LET request == <<path, groups>>
           through == [mgmt EXCEPT !.called = TRUE, !.path = path, !.groups = groups,
                                   !.status = "handler", !.handled = TRUE,
                                   !.passed = request]
           denied == [mgmt EXCEPT !.called = TRUE, !.path = path, !.groups = groups,
                                  !.status = "403", !.handled = FALSE,
                                  !.passed = <<>>]
       IN mgmt' =
            IF mgmt._mgmt_auth = FALSE \/ ~startswith(path, MGMT_PATH) THEN through
            ELSE IF groups = NoHeader \/ ~has_group(groups) THEN denied
            ELSE through
    /\ UNCHANGED <<nonces, nonceCtr, accounts, orders, req, accepts, call, eab>>

\* ------------------------------------------------------------- specifications
\* AcmeCA.__init__ and Database.begin (drop_all, create_all): no nonce, empty tables.
Init ==
    /\ nonces = {}
    /\ nonceCtr = 0
    /\ accounts = <<>>
    /\ orders = <<>>
    /\ req = [r \in Reqs |-> IdleReq]
    /\ accepts = [t \in {None} \cup Tokens |-> 0]
    /\ call = NoCall
    /\ eab = NoBindings
    /\ mgmt = NoRequest

Step(r) ==
    \/ VerifyRequest(r)
    \/ _new_account_get(r) \/ _new_account_commit(r)
    \/ _new_order_get(r) \/ _new_order_commit(r)
    \/ _order_get(r) \/ _order_commit(r)
    \/ _authz_get(r) \/ _authz_commit(r)
    \/ _challenge_get(r) \/ _challenge_commit(r)

Environment ==
    \/ _new_nonce
    \/ \E o \in 1..MaxOrders, i \in 1..MaxIdents, t \in ChallengeTypes :
          Challenge_validate(o, i, t) \/ Verifier_invalid(o, i, t)
    \/ \E o \in 1..MaxOrders : Expire(o)

\* The arguments worth sending with envelope e when no other handler runs:
\* a request that _verify_request rejects never reads them.
SeqArgs(op, e) ==
    IF _verify_request([ok |-> e.ok, nonce |-> e.nonce, jwk |-> e.jwk, kid |-> e.kid,
                        signer |-> e.signer, op |-> op], nonces) = "ok"
    THEN Args(op) ELSE {NoArgs}

\* Every operation with any envelope, one handler at a time.
Next ==
    \/ \E op \in Ops : \E e \in AllEnvelopes : \E a \in SeqArgs(op, e) : Receive(1, op, e, a)
    \/ Step(1)
    \/ Environment

Spec == Init /\ [][Next]_vars

\* The operations of the account directory and one that authenticates by kid.
DirectoryOps == {"new-account", "revoke-cert", "new-order"}

\* The authenticator and the account directory alone: any envelope, one handler
\* at a time.
NextDirectory ==
    \/ \E op \in DirectoryOps :
          \E e \in AllEnvelopes : \E a \in SeqArgs(op, e) : Receive(1, op, e, a)
    \/ VerifyRequest(1)
    \/ _new_account_get(1) \/ _new_account_commit(1)
    \/ _new_order_get(1) \/ _new_order_commit(1)
    \/ _new_nonce

SpecDirectory == Init /\ [][NextDirectory]_vars

\* The operations the concurrent specification runs.
ConcurrentOps == {"new-account", "revoke-cert"}

\* Handlers that run together, interleaved at their awaits, for clients that
\* follow the protocol.
NextConcurrent ==
    \/ \E r \in Reqs, op \in ConcurrentOps :
          \E e \in HonestEnvelopes(op), a \in HonestArgs(op) : Receive(r, op, e, a)
    \/ \E r \in Reqs : VerifyRequest(r) \/ _new_account_get(r) \/ _new_account_commit(r)
    \/ _new_nonce

SpecConcurrent == Init /\ [][NextConcurrent]_vars

\* An Order as Order.from_obj builds it for an account, with its identifiers,
\* authorizations and challenges, and nothing else.
InitModels ==
    /\ nonces = {}
    /\ nonceCtr = 0
    /\ accounts = <<[key |-> 1, kid |-> sha256_hex_digest(1), status |-> "valid",
                     contact |-> json_dumps(<<>>)]>>
    /\ \E n \in 1..MaxScan : orders = <<from_obj(sha256_hex_digest(1), n)>>
    /\ req = [r \in Reqs |-> IdleReq]
    /\ accepts = [t \in {None} \cup Tokens |-> 0]
    /\ call = NoCall
    /\ eab = NoBindings
    /\ mgmt = NoRequest

\* The methods of the models called on that Order, in any order, and the
\* events that change what they read.
NextModels ==
    \/ \E i \in 1..MaxScan, t \in ChallengeTypes :
          Challenge_validate(1, i, t) \/ Verifier_invalid(1, i, t)
    \/ Order_validate(1)
    \/ Expire(1)

SpecModels == InitModels /\ [][NextModels]_vars

\* The operations on an order.
OrderOps == {"order", "finalize-order"}

\* The challenge type the order's client answers.
Answered == {"http-01"}

\* The state new-account and new-order leave behind: one account and its
\* pending order.
InitOrders ==
    /\ nonces = {}
    /\ nonceCtr = 0
    /\ accounts = <<[key |-> 1, kid |-> sha256_hex_digest(1), status |-> "valid",
                     contact |-> json_dumps(<<>>)]>>
    /\ \E n \in 1..MaxIdents : orders = <<from_obj(sha256_hex_digest(1), n)>>
    /\ req = [r \in Reqs |-> IdleReq]
    /\ accepts = [t \in {None} \cup Tokens |-> 0]
    /\ call = NoCall
    /\ eab = NoBindings
    /\ mgmt = NoRequest

\* Requests for that order whose handlers run together, the outcomes of its
\* challenges and the clock.
NextOrders ==
    \/ \E r \in Reqs, op \in OrderOps :
          \E e \in OwnerEnvelopes(1), a \in Args(op) : Receive(r, op, e, a)
    \/ \E r \in Reqs : VerifyRequest(r) \/ _order_get(r) \/ _order_commit(r)
    \/ \E i \in 1..MaxIdents, t \in Answered : Challenge_validate(1, i, t)
    \/ Expire(1)
    \/ _new_nonce

SpecOrders == InitOrders /\ [][NextOrders]_vars

\* Requests for that order, one handler at a time, with every outcome of its
\* challenges and the clock.
NextFinalize ==
    \/ \E op \in OrderOps :
          \E e \in OwnerEnvelopes(1), a \in Args(op) : Receive(1, op, e, a)
    \/ VerifyRequest(1) \/ _order_get(1) \/ _order_commit(1)
    \/ \E i \in 1..MaxIdents, t \in Answered :
          Challenge_validate(1, i, t) \/ Verifier_invalid(1, i, t)
    \/ Expire(1)
    \/ _new_nonce

SpecFinalize == InitOrders /\ [][NextFinalize]_vars

\* The state new-account leaves behind: one account, no order.
InitAccount ==
    /\ nonces = {}
    /\ nonceCtr = 0
    /\ accounts = <<[key |-> 1, kid |-> sha256_hex_digest(1), status |-> "valid",
                     contact |-> json_dumps(<<>>)]>>
    /\ orders = <<>>
    /\ req = [r \in Reqs |-> IdleReq]
    /\ accepts = [t \in {None} \cup Tokens |-> 0]
    /\ call = NoCall
    /\ eab = NoBindings
    /\ mgmt = NoRequest

\* new-order requests for up to MaxScan names whose handlers run together,
\* and the methods of the models called on the order they create.
NextNewOrder ==
    \/ \E r \in Reqs : \E e \in AccountEnvelopes(1), n \in 0..MaxScan :
          Receive(r, "new-order", e, [NoArgs EXCEPT !.n = n])
    \/ \E r \in Reqs : VerifyRequest(r) \/ _new_order_get(r) \/ _new_order_commit(r)
    \/ \E i \in 1..MaxScan, t \in Answered : Challenge_validate(1, i, t)
    \/ Order_validate(1)
    \/ _new_nonce

SpecNewOrder == InitAccount /\ [][NextNewOrder]_vars

\* The same, and the clock passing the order's expires.
NextEmptyOrder ==
    \/ NextNewOrder
    \/ Expire(1)

SpecEmptyOrder == InitAccount /\ [][NextEmptyOrder]_vars

\* Requests that validate the challenges of one order, whose handlers run
\* together.
NextChallenges ==
    \/ \E r \in Reqs : \E e \in OwnerEnvelopes(1), i \in 1..MaxScan, t \in Answered :
          Receive(r, "challenge", e, [NoArgs EXCEPT !.oid = 1, !.idx = i, !.typ = t])
    \/ \E r \in Reqs : VerifyRequest(r) \/ _challenge_get(r) \/ _challenge_commit(r)
    \/ _new_nonce

SpecChallenges == InitModels /\ [][NextChallenges]_vars

\* Registrations and finalize requests that end in the errors of
\* _verify_request, _new_account and _finalize_order, or go through; one
\* handler at a time.  The first nonce comes with the badNonce response.
NextErrors ==
    \/ \E e \in KeyEnvelopes : \E a \in SeqArgs("new-account", e) :
          Receive(1, "new-account", e, a)
    \/ \E e \in OwnerEnvelopes(1), a \in Args("finalize-order") :
          Receive(1, "finalize-order", e, a)
    \/ VerifyRequest(1)
    \/ _new_account_get(1) \/ _new_account_commit(1)
    \/ _order_get(1) \/ _order_commit(1)
    \/ \E i \in 1..MaxIdents, t \in Answered : Challenge_validate(1, i, t)
    \/ Expire(1)

SpecErrors == InitOrders /\ [][NextErrors]_vars

\* The operations on an order and on its challenges.
HandlerOps == {"order", "finalize-order", "challenge"}

\* Registrations and requests for one order and its challenges, whose
\* handlers run together.
NextHandlers ==
    \/ \E r \in Reqs :
          \E e \in HonestEnvelopes("new-account"), a \in HonestArgs("new-account") :
              Receive(r, "new-account", e, a)
    \/ \E r \in Reqs, op \in HandlerOps :
          \E e \in OwnerEnvelopes(1), a \in Args(op) : Receive(r, op, e, a)
    \/ \E r \in Reqs :
          \/ VerifyRequest(r)
          \/ _new_account_get(r) \/ _new_account_commit(r)
          \/ _order_get(r) \/ _order_commit(r)
          \/ _challenge_get(r) \/ _challenge_commit(r)
    \/ \E i \in 1..MaxIdents, t \in Answered : Challenge_validate(1, i, t)
    \/ Expire(1)
    \/ _new_nonce

SpecHandlers == InitOrders /\ [][NextHandlers]_vars

\* One account and its NFrame pending orders of MaxScan identifiers each.
InitFrame ==
    /\ nonces = {}
    /\ nonceCtr = 0
    /\ accounts = <<[key |-> 1, kid |-> sha256_hex_digest(1), status |-> "valid",
                     contact |-> json_dumps(<<>>)]>>
    /\ orders = [o \in 1..NFrame |-> from_obj(sha256_hex_digest(1), MaxScan)]
    /\ req = [r \in Reqs |-> IdleReq]
    /\ accepts = [t \in {None} \cup Tokens |-> 0]
    /\ call = NoCall
    /\ eab = NoBindings
    /\ mgmt = NoRequest

\* Challenges of the first order validated by requests of the account, one
\* handler at a time, and those of the other orders by Challenge.validate.
NextFrame ==
    \/ \E o \in 2..NFrame, i \in 1..MaxScan, t \in Answered : Challenge_validate(o, i, t)
    \/ \E e \in OwnerEnvelopes(1), i \in 1..MaxScan, t \in Answered :
          Receive(1, "challenge", e, [NoArgs EXCEPT !.oid = 1, !.idx = i, !.typ = t])
    \/ VerifyRequest(1) \/ _challenge_get(1) \/ _challenge_commit(1)
    \/ _new_nonce

SpecFrame == InitFrame /\ [][NextFrame]_vars

\* Registrations and new-order requests, one handler at a time, for an
\* account that is deactivated at some moment.
NextDeactivated ==
    \/ Deactivate(1)
    \/ \E e \in HonestEnvelopes("new-account"), a \in Args("new-account") :
          Receive(1, "new-account", e, a)
    \/ \E e \in AccountEnvelopes(1), a \in Args("new-order") : Receive(1, "new-order", e, a)
    \/ VerifyRequest(1)
    \/ _new_account_get(1) \/ _new_account_commit(1)
    \/ _new_order_get(1) \/ _new_order_commit(1)
    \/ _new_nonce

SpecDeactivated == InitAccount /\ [][NextDeactivated]_vars

\* The calls of test_create in any order and number, for every mail address.
NextEAB ==
    \/ \E mail \in Mails : _eab_create(mail)
    \/ \E kid \in EabKids, hmac \in EabHmacs : _eab_verify(kid, hmac)

SpecEAB == Init /\ [][NextEAB]_vars

\* The server started with management authentication on or off.
InitMgmt ==
    /\ nonces = {}
    /\ nonceCtr = 0
    /\ accounts = <<>>
    /\ orders = <<>>
    /\ req = [r \in Reqs |-> IdleReq]
    /\ accepts = [t \in {None} \cup Tokens |-> 0]
    /\ call = NoCall
    /\ eab = NoBindings
    /\ \E auth \in BOOLEAN : mgmt = [NoRequest EXCEPT !._mgmt_auth = auth]

\* Requests of every path with every groups header, or without one.
NextMgmt ==
    \E path \in Paths, groups \in {NoHeader} \cup Headers :
        mgmt_auth_middleware(path, groups)

SpecMgmt == InitMgmt /\ [][NextMgmt]_vars

\* Every key has registered, with a contact.  Account updates whose handlers
\* run together: in the first slot the envelope names any account and the URL
\* any kid (a signed kid that is no account URL of this server has the kid
\* of the URL), in the others the first client sets its account's contact.
InitAccounts ==
    /\ nonces = {}
    /\ nonceCtr = 0
    /\ accounts = [k \in Keys |->
                      [key |-> k, kid |-> sha256_hex_digest(k), status |-> "valid",
                       contact |-> json_dumps(<<"mailto:a">>)]]
    /\ orders = <<>>
    /\ req = [r \in Reqs |-> IdleReq]
    /\ accepts = [t \in {None} \cup Tokens |-> 0]
    /\ call = NoCall
    /\ eab = NoBindings
    /\ mgmt = NoRequest

NextAccounts ==
    \/ \E a \in Keys : \E e \in AccountEnvelopes(a), u \in UrlKids,
                         o \in BOOLEAN, c \in Contacts :
          /\ ~o => u = e.kid
          /\ Receive(1, "accounts", e,
                     [NoArgs EXCEPT !.ukid = u, !.own = o, !.contact = c])
    \/ \E r \in Reqs \ {1} : \E e \in AccountEnvelopes(1) :
          Receive(r, "accounts", e,
                  [NoArgs EXCEPT !.ukid = e.kid, !.contact = <<"mailto:c">>])
    \/ \E r \in Reqs : VerifyRequest(r) \/ _accounts_get(r) \/ _accounts_commit(r)
    \/ _new_nonce

SpecAccounts == InitAccounts /\ [][NextAccounts]_vars

\* ------------------------------------------------------------- claims
Done(r) == req[r].pc = "done"

\* The handler of slot r got past _verify_request.
Verified(r) ==
    /\ req[r].pc \in {"lookup", "commit", "done"}
    /\ req[r].nres = "accepted"
    /\ req[r].out \notin {"AssertionError", "JoseError", "badPublicKey", "malformed"}

\* C1: a nonce is accepted at most once, and only if the registry issued it:
\* every token _verify_nonce has accepted was produced by _issue_nonce, was
\* accepted exactly once and is outstanding no more; the missing nonce is
\* never accepted; and a request whose nonce _verify_nonce rejects ends with
\* badNonce.
C1_NonceSingleUse ==
    /\ \A t \in {None} \cup Tokens :
          /\ accepts[t] <= 1
          /\ accepts[t] = 1 => t \in 1..nonceCtr /\ t \notin nonces
    /\ \A r \in Reqs :
          /\ req[r].nres = "rejected" => req[r].out = "badNonce"
          /\ req[r].nres = "accepted" => accepts[req[r].nonce] = 1

\* A replayed token: the request's nonce had been accepted before and is rejected.
C1_Witness ==
    \E r \in Reqs :
        /\ Done(r) /\ req[r].out = "badNonce"
        /\ req[r].nonce # None /\ accepts[req[r].nonce] = 1

\* The handlers that arrived while token t was outstanding and have called
\* _verify_nonce with it.
Presented(t) ==
    {r \in Reqs : req[r].fresh /\ req[r].nonce = t /\ req[r].nres # "none"}

\* C2: of the handlers that present the same outstanding nonce, exactly one is
\* accepted and every other one ends with badNonce, whatever the interleaving.
C2_ExactlyOneConsume ==
    \A t \in Tokens :
        Presented(t) # {} =>
            /\ accepts[t] = 1
            /\ Cardinality({r \in Presented(t) : req[r].nres = "accepted"}) <= 1
            /\ \A r \in Presented(t) :
                  req[r].nres = "rejected" => req[r].out = "badNonce"

\* Two handlers in flight together presented one token: one won, the other ended
\* with badNonce.
C2_Witness ==
    \E r \in Reqs, q \in Reqs :
        /\ r # q
        /\ req[r].fresh /\ req[q].fresh /\ req[r].nonce = req[q].nonce
        /\ req[r].nres = "accepted"
        /\ req[q].nres = "rejected" /\ req[q].out = "badNonce"

\* A request as a client would send it again.
Replay(q) == [q EXCEPT !.pc = "recv", !.out = "none", !.nres = "none"]

\* C3: a call of _verify_request that got as far as the nonce check and did not
\* end with badNonce has consumed the request's nonce, whatever it ended with
\* (malformed, badPublicKey, an assertion, or success and a later error of the
\* handler): the nonce is outstanding no more, was consumed once, and the same
\* request sent again ends with badNonce.
C3_NonceConsumedOnFailure ==
    \A r \in Reqs :
        (Done(r) /\ req[r].out \notin {"badNonce", "DeserializationError"}) =>
            /\ req[r].nres = "accepted"
            /\ req[r].nonce \notin nonces
            /\ accepts[req[r].nonce] = 1
            /\ _verify_request(Replay(req[r]), nonces) = "badNonce"

\* A request that failed verification after its nonce was consumed.
C3_Witness ==
    \E r \in Reqs :
        /\ Done(r) /\ req[r].out \in {"malformed", "badPublicKey"}
        /\ req[r].nres = "accepted" /\ req[r].nonce \notin nonces

\* C4: a request that names its account by kid is served only if the kid is an
\* account's and the signature is by that account's key: with no such account
\* it ends with unauthorized, with another signer with badSignature, and in
\* both cases it writes nothing.
C4_KidAuthentication ==
    \A r \in Reqs :
        (/\ Done(r) /\ ~key_auth(req[r].op)
         /\ req[r].nres = "accepted" /\ req[r].jwk = None /\ req[r].kid # None) =>
            LET account == get_account(accounts, None, req[r].kid)
            IN /\ account = None =>
                     req[r].out = "unauthorized" /\ ~req[r].wrote
               /\ (account # None /\ accounts[account].key # req[r].signer) =>
                     req[r].out = "badSignature" /\ ~req[r].wrote

\* C5: an envelope with both a jwk and a kid, or with neither, ends with the
\* typed error malformed, whatever the operation.
C5_ExactlyOneOfJwkKid ==
    \A r \in Reqs :
        (/\ Done(r) /\ req[r].ok /\ req[r].nres = "accepted"
         /\ (req[r].jwk # None) = (req[r].kid # None)) =>
            req[r].out = "malformed"

\* The entity a request names exists and belongs to another account than the
\* one the request's kid names.
CrossAccount(q) ==
    /\ q.op \in {"order", "finalize-order", "authz", "challenge"}
    /\ q.oid \in 1..Len(orders)
    /\ q.op \in {"authz", "challenge"} => q.idx \in 1..Len(orders[q.oid].identifiers)
    /\ orders[q.oid].account_kid # q.kid

\* C6: a lookup of an order, authorization or challenge with the kid of an
\* account that does not own it ends with the typed error notFound and writes
\* nothing.
C6_CrossAccountNotFound ==
    \A r \in Reqs :
        (Done(r) /\ Verified(r) /\ CrossAccount(req[r])) =>
            req[r].out = "notFound" /\ ~req[r].wrote

\* A new-account request that _verify_request let through.
Registering(r) == req[r].op = "new-account" /\ Verified(r)

HasKey(key) == \E i \in 1..Len(accounts) : accounts[i].key = key

\* C7 as claimed: register without agreement to the terms always ends with
\* termsOfServiceNotAgreed and creates no account, also when the key has an
\* account.
C7_Original ==
    \A r \in Reqs :
        (Done(r) /\ Registering(r) /\ ~req[r].tos /\ ~req[r].ore) =>
            req[r].out = "termsOfServiceNotAgreed" /\ ~req[r].wrote

\* C7 as amended: new-account without agreement to the terms never creates an
\* account (its handler never reaches the INSERT); it ends with
\* termsOfServiceNotAgreed exactly when the key has no account and
\* onlyReturnExisting is not set; when the key has a valid account that account
\* is returned instead.
C7_TermsNotAgreed ==
    \A r \in Reqs :
        (Registering(r) /\ ~req[r].tos) =>
            /\ req[r].pc # "commit"
            /\ Done(r) =>
                  /\ ~req[r].wrote
                  /\ req[r].out = "termsOfServiceNotAgreed" <=>
                        (~HasKey(req[r].jwk) /\ ~req[r].ore)
                  /\ HasKey(req[r].jwk) =>
                        LET account == get_account(accounts, req[r].jwk, None)
                        IN IF accounts[account].status = "valid"
                           THEN req[r].out = "200" /\ req[r].rkid = accounts[account].kid
                           ELSE req[r].out = "unauthorized"

\* Terms refused for a new key while the directory already holds an account.
C7_Witness ==
    \E r \in Reqs :
        /\ Done(r) /\ Registering(r) /\ ~req[r].tos
        /\ req[r].out = "termsOfServiceNotAgreed"
        /\ Len(accounts) >= 1

\* C8: two new-account requests for one key both succeed with the same kid,
\* and one account row holds the key, also when they run together.
C8_ConcurrentRegister ==
    \A r \in Reqs, q \in Reqs :
        (/\ r # q /\ Done(r) /\ Done(q) /\ Registering(r) /\ Registering(q)
         /\ req[r].jwk = req[q].jwk) =>
            /\ req[r].out \in {"200", "201"} /\ req[q].out \in {"200", "201"}
            /\ req[r].rkid = req[q].rkid
            /\ Cardinality({i \in 1..Len(accounts) : accounts[i].key = req[r].jwk}) = 1

\* C9: with one new-account request at a time, no two accounts share a key or
\* a kid, no INSERT is ever refused as a duplicate, and a request for a key that
\* has a valid account returns that account (its kid) and adds no row.
C9_UniqueAccounts ==
    /\ \A i \in 1..Len(accounts), j \in 1..Len(accounts) :
          i # j => accounts[i].key # accounts[j].key /\ accounts[i].kid # accounts[j].kid
    /\ \A r \in Reqs :
          (Done(r) /\ Registering(r)) =>
              /\ req[r].out # "IntegrityError"
              /\ req[r].out \in {"200", "201"} =>
                    \E i \in 1..Len(accounts) :
                        accounts[i].key = req[r].jwk /\ accounts[i].kid = req[r].rkid
              /\ req[r].out = "200" => ~req[r].wrote
              /\ req[r].out = "201" => req[r].wrote
              /\ (req[r].tos /\ ~req[r].ore) => req[r].out \in {"200", "201"}

\* A second registration of a key returned the existing account.
C9_Witness ==
    \E r \in Reqs :
        /\ Done(r) /\ Registering(r) /\ req[r].out = "200" /\ ~req[r].wrote
        /\ req[r].rkid = sha256_hex_digest(req[r].jwk)

\* C10: a challenge whose status is valid or invalid keeps that status in every
\* step.
C10_ChallengeTerminal ==
    [][\A o \in 1..Len(orders) :
          \A i \in 1..Len(orders[o].identifiers) :
             \A t \in ChallengeTypes :
                orders[o].identifiers[i].challenges[t].status \in {"valid", "invalid"} =>
                    orders'[o].identifiers[i].challenges[t].status =
                        orders[o].identifiers[i].challenges[t].status]_vars

\* The challenge the last call was made on.
CalledChallenge == orders[call.o].identifiers[call.i].challenges[call.t]

\* C11: Challenge.validate returns the challenge's status, which is valid for
\* every challenge that was not invalid before; called a second time on the same
\* challenge it returns what the first call returned and is a no-op: it assigns
\* neither the status nor the validation timestamp and does not call the parent
\* authorization's validate again.
C11_ValidateIdempotent ==
    call.fn = "Challenge.validate" =>
        /\ call.ret = CalledChallenge.status
        /\ call.was # "invalid" =>
              /\ call.ret = "valid"
              /\ CalledChallenge.validated
        /\ call.n = 2 =>
              /\ call.ret = call.prev
              /\ ~call.set /\ ~call.parent

\* Challenge.validate was called twice on one challenge and returned valid twice.
C11_Witness ==
    /\ call.fn = "Challenge.validate" /\ call.n = 2
    /\ call.ret = "valid" /\ call.prev = "valid"
    /\ CalledChallenge.validated

\* C12: in every committed state an authorization is valid if and only if one
\* of its challenges is valid.
C12_AuthorizationIffChallenge ==
    \A o \in 1..Len(orders) :
        \A i \in 1..Len(orders[o].identifiers) :
            orders[o].identifiers[i].status = "valid" <=>
                \E t \in ChallengeTypes :
                    orders[o].identifiers[i].challenges[t].status = "valid"

\* The last call was Order.validate on an order that was pending and is not expired.
ValidatedPending ==
    /\ call.fn = "Order.validate" /\ call.was = "pending"
    /\ ~orders[call.o].expired

\* The authorizations of the order the last call was made on.
CalledAuthorizations == orders[call.o].identifiers

\* C13: Order.validate on a pending, unexpired order makes it invalid whenever
\* one of its authorizations is invalid, wherever that one stands among the
\* order's identifiers and whatever the others are.
C13_AnyInvalidAuthorization ==
    (/\ ValidatedPending
     /\ \E i \in 1..Len(CalledAuthorizations) : CalledAuthorizations[i].status = "invalid") =>
        call.ret = "invalid" /\ orders[call.o].status = "invalid"

\* C14: Order.validate on a pending, unexpired order makes it ready if and only
\* if every authorization is_valid(); with no authorization invalid and one not
\* yet valid the order stays pending; and no call of Order.validate makes an
\* order ready while one of its authorizations is pending or invalid.
C14_ReadyIffAllValid ==
    /\ ValidatedPending =>
          /\ call.ret = orders[call.o].status
          /\ call.ret = "ready" <=>
                \A i \in 1..Len(CalledAuthorizations) : is_valid(CalledAuthorizations[i])
          /\ (/\ \A i \in 1..Len(CalledAuthorizations) :
                     CalledAuthorizations[i].status # "invalid"
              /\ \E i \in 1..Len(CalledAuthorizations) :
                     ~is_valid(CalledAuthorizations[i])) =>
                call.ret = "pending"
    /\ (call.fn = "Order.validate" /\ call.was = "pending" /\ call.ret = "ready") =>
          \A i \in 1..Len(CalledAuthorizations) :
              CalledAuthorizations[i].status \notin {"pending", "invalid"}

\* Order.validate made an order of two identifiers ready.
C14_Witness ==
    /\ ValidatedPending /\ Len(CalledAuthorizations) = 2
    /\ call.ret = "ready" /\ orders[call.o].status = "ready"

\* C15 as claimed: Order.validate on an order whose expiry has passed makes it
\* invalid, whatever the order's status and its authorizations.
C15_Original ==
    (call.fn = "Order.validate" /\ orders[call.o].expired) =>
        call.ret = "invalid" /\ orders[call.o].status = "invalid"

\* C15 as amended: Order.validate on a pending order whose expiry has passed
\* makes it invalid, whatever its authorizations (also when all are valid); an
\* order that is not pending is left as it is (a ready order stays ready); and
\* no call of Order.validate after the expiry makes an order ready.
C15_ExpiredPending ==
    (call.fn = "Order.validate" /\ orders[call.o].expired) =>
        /\ call.was = "pending" =>
              call.ret = "invalid" /\ orders[call.o].status = "invalid"
        /\ call.was # "pending" =>
              call.ret = call.was /\ orders[call.o].status = call.was
        /\ call.ret = "ready" => call.was = "ready"

\* Order.validate made an expired pending order invalid whose authorizations
\* were all valid.
C15_Witness ==
    /\ call.fn = "Order.validate" /\ orders[call.o].expired
    /\ call.was = "pending" /\ call.ret = "invalid"
    /\ \A i \in 1..Len(CalledAuthorizations) : is_valid(CalledAuthorizations[i])

\* C16: Order.validate returns the order's status; on an order that is not
\* pending it returns the status the order had and assigns nothing; and called
\* again with nothing changed in between it returns what it returned before and
\* assigns nothing.
C16_OrderValidateIdempotent ==
    call.fn = "Order.validate" =>
        /\ call.ret = orders[call.o].status
        /\ call.was # "pending" => call.ret = call.was /\ ~call.set
        /\ call.n = 2 => call.ret = call.prev /\ call.was = call.prev /\ ~call.set

\* Order.validate was called twice in a row on an order the first call had made
\* ready or invalid.
C16_Witness ==
    /\ call.fn = "Order.validate" /\ call.n = 2
    /\ call.was \in {"ready", "invalid"} /\ call.ret = call.was

\* The place of a status in the sequence pending, ready, processing, valid.
Rank(status) ==
    CASE status = "pending" -> 1 [] status = "ready" -> 2
      [] status = "processing" -> 3 [] status = "valid" -> 4 [] OTHER -> 0

\* A step of an order's status the state machine allows: forward in the
\* sequence, or to invalid, from a status that is not terminal.
Forward(from, to) ==
    /\ from \notin {"valid", "invalid"}
    /\ to = "invalid" \/ Rank(to) > Rank(from)

\* C17: in every step every order keeps its status or moves it forward (or to
\* invalid) from a status that is not terminal.
C17_OrderMonotonic ==
    [][\A o \in 1..Len(orders) :
          \/ orders'[o].status = orders[o].status
          \/ Forward(orders[o].status, orders'[o].status)]_vars

\* A finalize request whose handler found the order and recomputed its status.
Finalizing(r) == req[r].op = "finalize-order" /\ req[r].st # "none"

C19_FinalizeAtMostOnce ==
    \A o \in 1..Len(orders) : orders[o].finalized <= 1

\* C20: the commit of a finalize request with a matching csr stores the csr on
\* the order and leaves the order in status processing.
C20_FinalizeStoresCsr ==
    [][\A r \in Reqs :
          (/\ req[r].op = "finalize-order" /\ req[r].pc = "commit"
           /\ req[r].csr = "match" /\ req'[r].pc = "done") =>
              /\ orders'[req[r].oid].status = "processing"
              /\ orders'[req[r].oid].csr # None]_vars

\* C21: a finalize request for an order found ready whose csr does not name
\* exactly the order's identifiers ends with CsrMismatch, and the order stays
\* ready with no csr stored.
C21_CsrMismatch ==
    \A r \in Reqs :
        (Done(r) /\ Finalizing(r) /\ req[r].st = "ready" /\ req[r].csr = "mismatch") =>
            /\ req[r].out = "CsrMismatch"
            /\ orders[req[r].oid].status = "ready"
            /\ orders[req[r].oid].csr = None

\* C22: every step that ends a request's handler, with a response or with an
\* error, issues exactly one new nonce, which is outstanding afterwards.
C22_ResponseCarriesNonce ==
    [][\A r \in Reqs :
          (req[r].pc # "done" /\ req'[r].pc = "done") =>
              /\ nonceCtr' = nonceCtr + 1
              /\ nonces' \ nonces = {generate_nonce(nonceCtr)}]_vars

\* The step takes the handler of slot r one step on.
HandlerStep(r) == req[r].pc \notin {"idle", "done"} /\ req'[r] # req[r]

\* C23: a handler that ends in an error of the taxonomy has written nothing:
\* the step that raises the error leaves the tables as they are, no step
\* before a handler's last one changes them, and the handler has committed
\* no change.
C23_TypedErrorPersistsNothing ==
    [][\A r \in Reqs :
          HandlerStep(r) =>
              /\ req'[r].pc # "done" => UNCHANGED <<accounts, orders>>
              /\ (req'[r].pc = "done" /\ req'[r].out \in TypedErrors) =>
                    /\ UNCHANGED <<accounts, orders>>
                    /\ ~req'[r].wrote]_vars

\* A finalize request found its pending order expired, set it invalid in its
\* session and was refused with orderNotReady: the order is stored pending.
C23_Witness ==
    \E r \in Reqs :
        /\ Done(r) /\ req[r].out = "orderNotReady"
        /\ req[r].ld = "pending" /\ req[r].st = "invalid"
        /\ orders[req[r].oid].status = "pending"

\* C24: from the empty store, once an account was created, its order for one
\* name was created, the http-01 challenge was validated and a finalize
\* request with a matching csr was answered without an error, the order has
\* left ready: it is processing, or valid after issuance.
C24_EndToEnd ==
    \A r \in Reqs :
        (/\ Done(r) /\ req[r].op = "finalize-order" /\ req[r].csr = "match"
         /\ req[r].out \in Successes) =>
            /\ Len(orders[req[r].oid].identifiers) = 1
            /\ is_valid(orders[req[r].oid].identifiers[1])
            /\ orders[req[r].oid].status \in {"processing", "valid"}

\* Every authorization of the order has exactly the configured challenge types.
HasChildren(order) ==
    \A i \in 1..Len(order.identifiers) :
        DOMAIN order.identifiers[i].challenges = ChallengeTypes

\* The order is as Order.from_obj has to build it for n names.
AsCreated(order, n) ==
    /\ order.status = "pending"
    /\ order.expires = ExpiresDays /\ ~order.expired
    /\ Len(order.identifiers) = n
    /\ HasChildren(order)
    /\ \A i \in 1..n :
          /\ order.identifiers[i].status = "pending"
          /\ \A t \in ChallengeTypes :
                order.identifiers[i].challenges[t].status = "pending"

_challenge_alone(os, q) ==
    IF get_challenge(os, accounts, q.kid, q.oid, q.idx, q.typ) = None THEN os
    ELSE [os EXCEPT ![q.oid].identifiers[q.idx].challenges[q.typ].status =
                        _challenge_status(@)]

\* The handler of slot r has validated a challenge of identifier i of order 1.
Validated(r, i) ==
    /\ Done(r) /\ req[r].op = "challenge" /\ req[r].out = "200"
    /\ req[r].oid = 1 /\ req[r].idx = i

\* The statuses of an order and of its authorizations.
Statuses(order) ==
    <<order.status, [i \in 1..Len(order.identifiers) |-> order.identifiers[i].status]>>

\* C27: requests that validate challenges of one order, run together, leave
\* what their serial execution in the order of their commits leaves: each
\* commit changes the table as its handler run alone at that moment would,
\* and once two requests for different authorizations have committed, both
\* challenges are valid and the statuses of the order and of its
\* authorizations are those the two handlers run one after the other leave.
C27_ChallengesSerializable ==
    [][/\ \A r \in Reqs :
             (req[r].op = "challenge" /\ req[r].pc = "commit" /\ req'[r].pc = "done") =>
                 orders' = _challenge_alone(orders, req[r])
       /\ \A r, s \in Reqs :
             (r # s /\ Validated(r, 1)' /\ Validated(s, 2)') =>
                 LET created == <<from_obj(accounts[1].kid, Len(orders[1].identifiers))>>
                     serial == _challenge_alone(_challenge_alone(created, req'[r]), req'[s])
                 IN /\ Statuses(orders'[1]) = Statuses(serial[1])
                    /\ \A q \in {r, s} :
                          orders'[1].identifiers[req'[q].idx].challenges[req'[q].typ]
                              = serial[1].identifiers[req'[q].idx].challenges[req'[q].typ]]_vars

\* Two requests for challenges of different authorizations were in their
\* handlers at the same time, both after get_challenge, and both have committed.
C27_Witness ==
    /\ Validated(1, 1) /\ Validated(2, 2)
    /\ req[1].nonce = 1 /\ req[2].nonce = 2
    /\ orders[1].identifiers[1].challenges[req[1].typ].status = "valid"
    /\ orders[1].identifiers[2].challenges[req[2].typ].status = "valid"

\* What the success response of slot r describes is in the tables: the
\* account it names; the order's status it serialized, which the handler
\* loaded or has written; the valid challenge.
Described(r) ==
    LET q == req[r]
    IN CASE q.op = "new-account" ->
              \E a \in 1..Len(accounts) :
                  accounts[a].key = q.jwk /\ accounts[a].kid = q.rkid
         [] q.op \in {"order", "finalize-order"} ->
              IF q.wr # "none"
              THEN q.wrote /\ q.st = q.wr /\ orders[q.oid].status = q.wr
              ELSE ~q.wrote /\ q.st = q.ld
         [] q.op = "challenge" ->
              orders[q.oid].identifiers[q.idx].challenges[q.typ].status = "valid"
         [] q.op = "new-order" ->
              \E o \in 1..Len(orders) : orders[o].account_kid = q.kid
         [] OTHER -> TRUE

\* C28: a handler changes the tables in its last step only, the commit, after
\* it has computed what it writes and what it answers; a commit that fails
\* changes nothing and is answered with an error; and what a success response
\* describes is in the tables when the response is made.
C28_CommitLast ==
    [][\A r \in Reqs :
          HandlerStep(r) =>
              /\ req[r].pc # "commit" =>
                    /\ UNCHANGED <<accounts, orders>>
                    /\ (req'[r].pc = "done" /\ req'[r].out \in Successes) =>
                          /\ req[r].op = "new-account" /\ req'[r].out = "200"
                          /\ Described(r)'
              /\ req[r].pc = "commit" =>
                    /\ req'[r].pc = "done"
                    /\ req'[r].wr = req[r].wr /\ req'[r].st = req[r].st
                    /\ req'[r].out \in Successes => Described(r)'
                    /\ req'[r].out \notin Successes =>
                          UNCHANGED <<accounts, orders>> /\ ~req'[r].wrote]_vars

\* Two registrations of one key ran together: the commit of the second one
\* failed, it was answered with the error, and the table holds one account
\* for the key.
C28_Witness ==
    \E r, s \in Reqs :
        /\ r # s /\ Done(r) /\ Done(s)
        /\ req[r].op = "new-account" /\ req[s].op = "new-account"
        /\ req[r].jwk = req[s].jwk
        /\ req[r].out = "201" /\ req[s].out = "IntegrityError"
        /\ Cardinality({a \in 1..Len(accounts) : accounts[a].key = req[r].jwk}) = 1

\* The step leaves alone every order but o, every authorization of o but that
\* of identifier i, and every challenge of that authorization but t.
Frame(o, i, t) ==
    /\ Len(orders') = Len(orders)
    /\ \A o2 \in 1..Len(orders) : o2 # o => orders'[o2] = orders[o2]
    /\ Len(orders'[o].identifiers) = Len(orders[o].identifiers)
    /\ \A i2 \in 1..Len(orders[o].identifiers) :
          i2 # i => orders'[o].identifiers[i2] = orders[o].identifiers[i2]
    /\ \A t2 \in ChallengeTypes \ {t} :
          orders'[o].identifiers[i].challenges[t2] = orders[o].identifiers[i].challenges[t2]

\* C29: a step that validates a challenge, Challenge.validate or the commit of
\* a challenge request, changes nothing but that challenge, its authorization
\* and its order: every other order, every other authorization and the
\* challenges of other authorizations are as before; and no other step
\* changes the orders.
C29_ValidateFrame ==
    [][\/ orders' = orders
       \/ /\ call'.fn = "Challenge.validate"
          /\ Frame(call'.o, call'.i, call'.t)
       \/ \E r \in Reqs :
             /\ req[r].op = "challenge" /\ req[r].pc = "commit" /\ req'[r].pc = "done"
             /\ Frame(req[r].oid, req[r].idx, req[r].typ)]_vars

\* Challenge.validate has just set a challenge of the second order valid, and
\* its authorization with it, while a request had validated a challenge of the
\* first order; the other authorization of the second order is still pending.
C29_Witness ==
    /\ call.fn = "Challenge.validate" /\ call.set /\ call.o = 2 /\ call.i = 2
    /\ orders[2].identifiers[2].status = "valid"
    /\ orders[2].identifiers[1] = for_identifier
    /\ Done(1) /\ req[1].op = "challenge" /\ req[1].out = "200" /\ req[1].oid = 1
    /\ orders[1].identifiers[req[1].idx].challenges[req[1].typ].status = "valid"

\* The request of slot r is made in the name of an account that is not valid:
\* with its key or with its kid.
NonValid(r) ==
    \E a \in 1..Len(accounts) :
        /\ accounts[a].status # "valid"
        /\ \/ req[r].jwk # None /\ accounts[a].key = req[r].jwk
           \/ req[r].kid # None /\ accounts[a].kid = req[r].kid

\* C30: a handler that got past _verify_request and ends while the account the
\* request was made for is not valid ends with unauthorized and leaves the
\* tables as they are.
C30_NonValidUnauthorized ==
    [][\A r \in Reqs :
          (/\ req[r].pc \in {"lookup", "commit"} /\ req'[r].pc = "done"
           /\ NonValid(r)) =>
              /\ req'[r].out = "unauthorized"
              /\ UNCHANGED <<accounts, orders>>]_vars

\* The string s begins with the characters of "/mgmt".
UnderMgmt(s) == \A i \in 1..Len(MGMT_PATH) : i <= Len(s) /\ s[i] = MGMT_PATH[i]

\* The management group is one of the comma-separated groups of the header:
\* it stands between two commas, or between a comma and an end of the header.
NamesGroup(groups) ==
    \E i \in 1..Len(groups) :
        LET j == i + Len(MGMT_GROUP) - 1
        IN /\ j <= Len(groups)
           /\ \A k \in 1..Len(MGMT_GROUP) : groups[i + k - 1] = MGMT_GROUP[k]
           /\ i = 1 \/ groups[i - 1] = ","
           /\ j = Len(groups) \/ groups[j + 1] = ","

\* C31: with management authentication enabled, a request whose path starts
\* with /mgmt and that has no groups header, or whose comma-separated groups
\* do not contain the management group, is answered 403 and its handler is
\* not called; every other request, and every request when management
\* authentication is disabled, reaches its handler as it came.
C31_MgmtAuth ==
    mgmt.called =>
        LET refused == /\ mgmt._mgmt_auth
                       /\ UnderMgmt(mgmt.path)
                       /\ mgmt.groups = NoHeader \/ ~NamesGroup(mgmt.groups)
        IN /\ refused => mgmt.status = "403" /\ ~mgmt.handled
           /\ ~refused =>
                 /\ mgmt.status = "handler" /\ mgmt.handled
                 /\ mgmt.passed = <<mgmt.path, mgmt.groups>>

\* A request for a path below /mgmt whose header names, after an empty group,
\* a group that only begins like the management group was refused.
C31_Witness ==
    /\ mgmt.called /\ mgmt._mgmt_auth
    /\ mgmt.path = <<"/", "m", "g", "m", "t", "/", "c">>
    /\ mgmt.groups = <<",", "it-admins", "users">>
    /\ mgmt.status = "403" /\ ~mgmt.handled

\* C32: a step of an account-update handler modifies the contact of no account
\* but the one the envelope's signed key-identifier names; when the kid of the
\* request's URL differs from the signed one it modifies no account, and when
\* the payload's contact is empty it leaves the stored contacts as they are.
C32_UpdateScope ==
    [][\A r \in Reqs :
          (req[r].op = "accounts" /\ InFlight(r) /\ req'[r] # req[r]) =>
             /\ DOMAIN accounts' = DOMAIN accounts
             /\ \A a \in DOMAIN accounts :
                   accounts'[a].contact # accounts[a].contact =>
                      accounts[a].kid = req[r].kid
             /\ req[r].ukid # req[r].kid => accounts' = accounts
             /\ req[r].contact = <<>> => accounts' = accounts]_vars

\* An update signed for the second account was sent to the URL of the first
\* with a new contact, and ended with both contacts as they were registered;
\* an update of the first account by its client went through.
C32_Witness ==
    /\ req[1].pc = "done" /\ req[1].op = "accounts"
    /\ req[1].kid = sha256_hex_digest(2) /\ req[1].ukid = sha256_hex_digest(1)
    /\ req[1].contact = <<"mailto:b">>
    /\ req[1].out = "AssertionError"
    /\ req[2].pc = "done" /\ req[2].out = "200" /\ req[2].wrote
    /\ accounts[1].contact = <<"[", "mailto:c", "]">>
    /\ accounts[2].contact = <<"[", "mailto:a", "]">>

\* C33: Order.validate called on a pending order that has not expired and has
\* no identifiers returns ready and leaves the order ready, though it has no
\* authorization that could have been validated.
C33_EmptyOrderReady ==
    (/\ call.fn = "Order.validate" /\ call.was = "pending"
     /\ orders[call.o].identifiers = <<>>
     /\ ~orders[call.o].expired)
    => /\ call.ret = "ready" /\ call.set
       /\ orders[call.o].status = "ready"

\* A new-order request without identifiers created the order, and
\* Order.validate made it ready.
C33_Witness ==
    /\ Len(orders) = 1
    /\ \E r \in Reqs : req[r].op = "new-order" /\ req[r].out = "201" /\ req[r].n = 0
    /\ orders[1].identifiers = <<>> /\ ~orders[1].expired
    /\ call.fn = "Order.validate" /\ call.o = 1 /\ call.was = "pending"
    /\ orders[1].status = "ready"

====
